---- MODULE Spec2Model ----
(***************************************************************************)
(* ha_cluster_exporter: the Pacemaker collector                            *)
(* (src/collector/pacemaker/pacemaker.go) and the DRBD collector (the Go   *)
(* source that follows the make rules in src/Makefile).                    *)
(*                                                                         *)
(* A Collect pass writes samples into the channel the registry hands it.   *)
(* The pass is one action; the channel is modelled as the bag of samples   *)
(* written during the pass: the Pacemaker collector ranges over Go maps,   *)
(* whose iteration order is unspecified, so the model fixes no order.      *)
(* Strings are TLA+ strings, taken apart with Len, SubSeq and \o.          *)
(***************************************************************************)
EXTENDS Bags, FiniteSets, Integers, Sequences, TLC

VARIABLES
    collector,   \* which Collect pass wrote ch: "none", "pacemaker" or "drbd"
    input,       \* what the external tools and the file system gave that pass
    ch,          \* the samples the pass sent to the channel (a bag)
    panicked     \* the pass ended in a run-time panic (index out of range)

vars == <<collector, input, ch, panicked>>

(***************************************************************************)
(* Bounds of the model.                                                    *)
(***************************************************************************)
MaxNodes == 2
MaxResources == 2
MaxHistory == 2
MaxConstraints == 2
MaxScoreLen == 3
MaxDrbdResources == 2
MaxDevices == 2
MaxConnections == 2
MaxPeerDevices == 2
MaxFiles == 3

(***************************************************************************)
(* Go library functions, by what they do.                                  *)
(***************************************************************************)
CharAt(s, i) == SubSeq(s, i, i)

UpperLetters == "ABCDEFGHIJKLMNOPQRSTUVWXYZ"
LowerLetters == "abcdefghijklmnopqrstuvwxyz"

\* unicode.ToLower on one ASCII character
LowerChar(c) ==
    IF \E i \in 1..Len(UpperLetters) : CharAt(UpperLetters, i) = c
    THEN CharAt(LowerLetters, CHOOSE i \in 1..Len(UpperLetters) : CharAt(UpperLetters, i) = c)
    ELSE c

RECURSIVE ToLower(_)
\* strings.ToLower
ToLower(s) ==
    IF s = "" THEN "" ELSE LowerChar(CharAt(s, 1)) \o ToLower(SubSeq(s, 2, Len(s)))

\* strings.HasPrefix
HasPrefix(s, prefix) ==
    Len(s) >= Len(prefix) /\ SubSeq(s, 1, Len(prefix)) = prefix

\* strings.Index, 1-based; 0 when sep does not occur in s
Index(s, sep) ==
    LET hits == {i \in 1..(Len(s) - Len(sep) + 1) : SubSeq(s, i, i + Len(sep) - 1) = sep}
    IN  IF hits = {} THEN 0 ELSE CHOOSE i \in hits : \A j \in hits : i <= j

RECURSIVE Split(_, _)
\* strings.Split with a non-empty separator: one part more than occurrences
Split(s, sep) ==
    LET i == Index(s, sep)
    IN  IF i = 0 THEN <<s>>
        ELSE <<SubSeq(s, 1, i - 1)>> \o Split(SubSeq(s, i + Len(sep), Len(s)), sep)

Digits == "0123456789"
IsDigit(c) == \E i \in 1..Len(Digits) : CharAt(Digits, i) = c
DigitValue(c) == (CHOOSE i \in 1..Len(Digits) : CharAt(Digits, i) = c) - 1

RECURSIVE ParseDigits(_, _)
\* the accumulation loop of strconv.Atoi over a string of digits
ParseDigits(s, acc) ==
    IF s = "" THEN acc
    ELSE ParseDigits(SubSeq(s, 2, Len(s)), acc * 10 + DigitValue(CharAt(s, 1)))

\* strconv.Atoi: [n, err]; a syntax error gives n = 0
Atoi(s) ==
    LET signed == s # "" /\ CharAt(s, 1) \in {"-", "+"}
        body   == IF signed THEN SubSeq(s, 2, Len(s)) ELSE s
    IN  IF body = "" \/ \E i \in 1..Len(body) : ~IsDigit(CharAt(body, i))
        THEN [n |-> 0, err |-> TRUE]
        ELSE [n |-> IF signed /\ CharAt(s, 1) = "-"
                    THEN 0 - ParseDigits(body, 0) ELSE ParseDigits(body, 0),
              err |-> FALSE]

RECURSIVE ItoaNat(_)
ItoaNat(n) ==
    IF n < 10 THEN CharAt(Digits, n + 1)
    ELSE ItoaNat(n \div 10) \o CharAt(Digits, (n % 10) + 1)

\* strconv.Itoa
Itoa(n) == IF n < 0 THEN "-" \o ItoaNat(0 - n) ELSE ItoaNat(n)

\* strconv.FormatBool
FormatBool(b) == IF b THEN "true" ELSE "false"

\* float64 values: a finite number, math.Inf(1) or math.Inf(-1)
Float64(n) == [inf |-> 0, n |-> n]
PosInf == [inf |-> 1, n |-> 0]
NegInf == [inf |-> 0 - 1, n |-> 0]

(***************************************************************************)
(* Descriptors and samples (collector.DefaultCollector).                   *)
(***************************************************************************)
SetDescriptor(descriptors, name, variableLabels) ==
    (name :> variableLabels) @@ descriptors

MakeGaugeMetric(name, value, labelValues) ==
    [name |-> name, type |-> "gauge", value |-> value, labels |-> labelValues]

MakeCounterMetric(name, value, labelValues) ==
    [name |-> name, type |-> "counter", value |-> value, labels |-> labelValues]

NoDescriptors == [n \in {} |-> <<>>]

\* the descriptors NewCollector registers for the Pacemaker collector
PacemakerDescriptors ==
    LET d1 == SetDescriptor(NoDescriptors, "nodes", <<"node", "type", "status">>)
        d2 == SetDescriptor(d1, "resources", <<"node", "resource", "role", "managed", "status">>)
        d3 == SetDescriptor(d2, "stonith_enabled", <<>>)
        d4 == SetDescriptor(d3, "fail_count", <<"node", "resource">>)
        d5 == SetDescriptor(d4, "migration_threshold", <<"node", "resource">>)
        d6 == SetDescriptor(d5, "config_last_change", <<>>)
    IN  SetDescriptor(d6, "location_constraints", <<"constraint", "node", "resource", "role">>)

\* the descriptors NewCollector registers for the DRBD collector
DrbdDescriptors ==
    LET d1  == SetDescriptor(NoDescriptors, "resources", <<"resource", "role", "volume", "disk_state">>)
        d2  == SetDescriptor(d1, "written", <<"resource", "volume">>)
        d3  == SetDescriptor(d2, "read", <<"resource", "volume">>)
        d4  == SetDescriptor(d3, "al_writes", <<"resource", "volume">>)
        d5  == SetDescriptor(d4, "bm_writes", <<"resource", "volume">>)
        d6  == SetDescriptor(d5, "upper_pending", <<"resource", "volume">>)
        d7  == SetDescriptor(d6, "lower_pending", <<"resource", "volume">>)
        d8  == SetDescriptor(d7, "quorum", <<"resource", "volume">>)
        d9  == SetDescriptor(d8, "connections", <<"resource", "peer_node_id", "peer_role", "volume", "peer_disk_state">>)
        d10 == SetDescriptor(d9, "connections_sync", <<"resource", "peer_node_id", "volume">>)
        d11 == SetDescriptor(d10, "connections_received", <<"resource", "peer_node_id", "volume">>)
        d12 == SetDescriptor(d11, "connections_sent", <<"resource", "peer_node_id", "volume">>)
        d13 == SetDescriptor(d12, "connections_pending", <<"resource", "peer_node_id", "volume">>)
        d14 == SetDescriptor(d13, "connections_unacked", <<"resource", "peer_node_id", "volume">>)
    IN  SetDescriptor(d14, "split_brain", <<"resource", "volume">>)

(***************************************************************************)
(* Sending to the channel.                                                 *)
(***************************************************************************)
Send(m) == SetToBag({m})

RECURSIVE SumBags(_)
\* a `for ... range` loop over a slice or over the keys of a map: the samples
\* sent by its iterations, added up; f maps each index or key to the bag of
\* samples that iteration sends
SumBags(f) ==
    IF DOMAIN f = {} THEN EmptyBag
    ELSE LET k == CHOOSE x \in DOMAIN f : TRUE
         IN  f[k] (+) SumBags([x \in DOMAIN f \ {k} |-> f[x]])

(***************************************************************************)
(* The Pacemaker collector.                                                *)
(***************************************************************************)
NodeStatusNames ==
    {"online", "standby", "standby_onfail", "maintenance", "pending",
     "unclean", "shutdown", "expected_up", "dc"}

nodeStatuses(node) ==
    ("online" :> node.Online) @@ ("standby" :> node.Standby) @@
    ("standby_onfail" :> node.StandbyOnFail) @@ ("maintenance" :> node.Maintenance) @@
    ("pending" :> node.Pending) @@ ("unclean" :> node.Unclean) @@
    ("shutdown" :> node.Shutdown) @@ ("expected_up" :> node.ExpectedUp) @@
    ("dc" :> node.DC)

\* nodeType without the default branch of the switch: the type as it came
nodeTypeUnmapped(node) == node.Type

nodeType(node) ==
    IF node.Type \in {"member", "ping", "remote"} THEN node.Type ELSE "unknown"

\* resourceStatuses without the entry for the empty status
resourceStatusesWithoutEmpty(resource) ==
    ("active" :> resource.Active) @@ ("orphaned" :> resource.Orphaned) @@
    ("blocked" :> resource.Blocked) @@ ("failed" :> resource.Failed) @@
    ("failure_ignored" :> resource.FailureIgnored)

resourceStatuses(resource) ==
    ("active" :> resource.Active) @@ ("orphaned" :> resource.Orphaned) @@
    ("blocked" :> resource.Blocked) @@ ("failed" :> resource.Failed) @@
    ("failure_ignored" :> resource.FailureIgnored) @@
    ("" :> ~(resource.Active \/ resource.Orphaned \/ resource.Blocked
             \/ resource.Failed \/ resource.FailureIgnored))

\* resourceSample with the role and managed label values in the wrong order
resourceSampleSwapped(resource, nodeName, resourceStatus) ==
    MakeGaugeMetric("resources", Float64(1),
        <<nodeName, resource.Id, FormatBool(resource.Managed),
          ToLower(resource.Role), resourceStatus>>)

resourceSample(resource, nodeName, resourceStatus) ==
    MakeGaugeMetric("resources", Float64(1),
        <<nodeName, resource.Id, ToLower(resource.Role),
          FormatBool(resource.Managed), resourceStatus>>)

recordResource(resource, nodeName) ==
    LET statuses == resourceStatuses(resource)
        Body(resourceStatus) ==
            IF ~statuses[resourceStatus] THEN EmptyBag
            ELSE Send(resourceSample(resource, nodeName, resourceStatus))
    IN  SumBags([k \in DOMAIN statuses |-> Body(k)])

recordNodeResources(node) ==
    LET Body(resource) == recordResource(resource, node.Name)
    IN  SumBags([i \in 1..Len(node.Resources) |-> Body(node.Resources[i])])

nodeSample(node, nodeStatus) ==
    MakeGaugeMetric("nodes", Float64(1), <<node.Name, nodeType(node), nodeStatus>>)

recordNode(node) ==
    LET statuses == nodeStatuses(node)
        Body(nodeStatus) ==
            IF statuses[nodeStatus] THEN Send(nodeSample(node, nodeStatus)) ELSE EmptyBag
    IN  SumBags([k \in DOMAIN statuses |-> Body(k)]) (+) recordNodeResources(node)

recordNodes(crmMon) == SumBags([i \in 1..Len(crmMon.Nodes) |-> recordNode(crmMon.Nodes[i])])

recordUngroupedResources(crmMon) ==
    LET Body(resource) == recordResource(resource, "")
    IN  SumBags([i \in 1..Len(crmMon.Resources) |-> Body(crmMon.Resources[i])])

\* Pacemaker's "infinity" fail count
FailCountInfinity == 1000000

failCountValue(resHistory) ==
    IF resHistory.FailCount >= FailCountInfinity THEN PosInf
    ELSE Float64(resHistory.FailCount)

recordFailCounts(crmMon) ==
    LET PerNode(node) ==
            LET Body(resHistory) ==
                    Send(MakeGaugeMetric("fail_count", failCountValue(resHistory),
                                         <<node.Name, resHistory.Name>>))
            IN  SumBags([i \in 1..Len(node.ResourceHistory) |-> Body(node.ResourceHistory[i])])
    IN  SumBags([i \in 1..Len(crmMon.NodeHistory) |-> PerNode(crmMon.NodeHistory[i])])

recordMigrationThresholds(crmMon) ==
    LET PerNode(node) ==
            LET Body(resHistory) ==
                    Send(MakeGaugeMetric("migration_threshold",
                                         Float64(resHistory.MigrationThreshold),
                                         <<node.Name, resHistory.Name>>))
            IN  SumBags([i \in 1..Len(node.ResourceHistory) |-> Body(node.ResourceHistory[i])])
    IN  SumBags([i \in 1..Len(crmMon.NodeHistory) |-> PerNode(crmMon.NodeHistory[i])])

\* crmMon.LastChange is the outcome of time.Parse(time.ANSIC, ...) on the
\* snapshot's text: [err, unix]
recordResourceAgentsChanges(crmMon) ==
    IF crmMon.LastChange.err THEN EmptyBag
    ELSE Send(MakeCounterMetric("config_last_change", Float64(crmMon.LastChange.unix), <<>>))

\* constraintScore without the case for "-INFINITY"
constraintScoreNoNegInf(constraint) ==
    IF constraint.Score = "INFINITY" THEN PosInf
    ELSE Float64(Atoi(constraint.Score).n)

constraintScore(constraint) ==
    IF constraint.Score = "INFINITY" THEN PosInf
    ELSE IF constraint.Score = "-INFINITY" THEN NegInf
    ELSE Float64(Atoi(constraint.Score).n)

constraintSample(constraint) ==
    MakeGaugeMetric("location_constraints", constraintScore(constraint),
        <<constraint.Id, constraint.Node, constraint.Resource, ToLower(constraint.Role)>>)

recordConstraints(CIB) ==
    LET Body(constraint) == Send(constraintSample(constraint))
    IN  SumBags([i \in 1..Len(CIB.RscLocations) |-> Body(CIB.RscLocations[i])])

\* pacemakerCollector.Collect on the outcome of the two parsers
pacemakerCollect(in) ==
    IF in.crmMonErr THEN EmptyBag
    ELSE IF in.cibErr THEN EmptyBag
    ELSE Send(MakeGaugeMetric("stonith_enabled",
                              Float64(IF in.crmMon.StonithEnabled THEN 1 ELSE 0), <<>>))
         (+) recordNodes(in.crmMon)
         (+) recordUngroupedResources(in.crmMon)
         (+) recordFailCounts(in.crmMon)
         (+) recordMigrationThresholds(in.crmMon)
         (+) recordResourceAgentsChanges(in.crmMon)
         (+) recordConstraints(in.CIB)

(***************************************************************************)
(* The DRBD collector.                                                     *)
(***************************************************************************)
SplitBrainPrefix == "drbd-split-brain-detected-"

\* ioutil.ReadDir: the entries sorted by name; nil when the directory is missing
ReadDir(dir) == IF dir.exists THEN dir.names ELSE <<>>

\* filepath.Glob(path + "/drbd-split-brain-detected-*") finds something
GlobMatches(dir) ==
    \E i \in 1..Len(ReadDir(dir)) : HasPrefix(ReadDir(dir)[i], SplitBrainPrefix)

splitBrainSample(resourceAndVolume) ==
    MakeGaugeMetric("split_brain", Float64(1), <<resourceAndVolume[1], resourceAndVolume[2]>>)

RECURSIVE splitBrainLoop(_, _)
\* the loop over the directory entries: [ch, panicked]
splitBrainLoop(files, match) ==
    IF files = <<>> THEN [ch |-> EmptyBag, panicked |-> FALSE]
    ELSE IF ~match THEN splitBrainLoop(Tail(files), match)
    ELSE LET parts == Split(Head(files), SplitBrainPrefix)
         IN  IF Len(parts) < 2
             THEN [ch |-> EmptyBag, panicked |-> TRUE]   \* index [1] out of range
             ELSE LET resAndVolume == parts[2]
                      resourceAndVolume == Split(resAndVolume, "-")
                      rest == splitBrainLoop(Tail(files), match)
                  IN  IF Len(resourceAndVolume) # 2 THEN rest
                      ELSE [ch |-> Send(splitBrainSample(resourceAndVolume)) (+) rest.ch,
                            panicked |-> rest.panicked]

recordDrbdSplitBrainMetric(dir) == splitBrainLoop(ReadDir(dir), GlobMatches(dir))

deviceResourceSample(resource, device) ==
    MakeGaugeMetric("resources", Float64(1),
        <<resource.Name, resource.Role, Itoa(device.Volume), ToLower(device.DiskState)>>)

deviceSamples(resource, device) ==
    LET labels == <<resource.Name, Itoa(device.Volume)>>
    IN  Send(deviceResourceSample(resource, device))
        (+) Send(MakeGaugeMetric("written", Float64(device.Written), labels))
        (+) Send(MakeGaugeMetric("read", Float64(device.Read), labels))
        (+) Send(MakeGaugeMetric("al_writes", Float64(device.AlWrites), labels))
        (+) Send(MakeGaugeMetric("bm_writes", Float64(device.BmWrites), labels))
        (+) Send(MakeGaugeMetric("upper_pending", Float64(device.UpPending), labels))
        (+) Send(MakeGaugeMetric("lower_pending", Float64(device.LoPending), labels))
        (+) Send(MakeGaugeMetric("quorum", Float64(IF device.Quorum THEN 1 ELSE 0), labels))

connectionSample(resource, conn, peerDev) ==
    MakeGaugeMetric("connections", Float64(1),
        <<resource.Name, Itoa(conn.PeerNodeID), conn.PeerRole,
          Itoa(peerDev.Volume), ToLower(peerDev.PeerDiskState)>>)

peerDeviceSamples(resource, conn, peerDev) ==
    LET labels == <<resource.Name, Itoa(conn.PeerNodeID), Itoa(peerDev.Volume)>>
    IN  Send(connectionSample(resource, conn, peerDev))
        (+) Send(MakeGaugeMetric("connections_sync", Float64(peerDev.PercentInSync), labels))
        (+) Send(MakeGaugeMetric("connections_received", Float64(peerDev.Received), labels))
        (+) Send(MakeGaugeMetric("connections_sent", Float64(peerDev.Sent), labels))
        (+) Send(MakeGaugeMetric("connections_pending", Float64(peerDev.Pending), labels))
        (+) Send(MakeGaugeMetric("connections_unacked", Float64(peerDev.Unacked), labels))

RECURSIVE connectionsLoop(_, _)
\* `for _, conn := range resource.Connections`
connectionsLoop(resource, conns) ==
    IF conns = <<>> THEN EmptyBag
    ELSE IF Len(Head(conns).PeerDevices) = 0
    THEN connectionsLoop(resource, Tail(conns))           \* continue
    ELSE LET Body(peerDev) == peerDeviceSamples(resource, Head(conns), peerDev)
         IN  SumBags([i \in 1..Len(Head(conns).PeerDevices) |-> Body(Head(conns).PeerDevices[i])])
             (+) connectionsLoop(resource, Tail(conns))

RECURSIVE resourcesLoopReturning(_)
\* resourcesLoop with `return` in place of `continue` for a resource without
\* connections
resourcesLoopReturning(drbdDev) ==
    IF drbdDev = <<>> THEN EmptyBag
    ELSE LET resource == Head(drbdDev)
             Body(device) == deviceSamples(resource, device)
             devices == SumBags([i \in 1..Len(resource.Devices) |-> Body(resource.Devices[i])])
         IN  IF Len(resource.Connections) = 0
             THEN devices
             ELSE devices (+) connectionsLoop(resource, resource.Connections)
                  (+) resourcesLoopReturning(Tail(drbdDev))

RECURSIVE resourcesLoop(_)
\* `for _, resource := range drbdDev`
resourcesLoop(drbdDev) ==
    IF drbdDev = <<>> THEN EmptyBag
    ELSE LET resource == Head(drbdDev)
             Body(device) == deviceSamples(resource, device)
             devices == SumBags([i \in 1..Len(resource.Devices) |-> Body(resource.Devices[i])])
         IN  IF Len(resource.Connections) = 0
             THEN devices (+) resourcesLoop(Tail(drbdDev))    \* continue
             ELSE devices (+) connectionsLoop(resource, resource.Connections)
                  (+) resourcesLoop(Tail(drbdDev))

\* drbdCollector.Collect on the directory listing and the outcome of
\* `drbdsetup status --json` and of parseDrbdStatus: [ch, panicked]
drbdCollect(in) ==
    LET sb == recordDrbdSplitBrainMetric(in.dir)
    IN  IF sb.panicked THEN sb
        ELSE IF in.execErr THEN sb
        ELSE IF in.jsonErr THEN sb
        ELSE [ch |-> sb.ch (+) resourcesLoop(in.drbdDev), panicked |-> FALSE]

(***************************************************************************)
(* What the external tools can give a pass: the Pacemaker side.            *)
(***************************************************************************)
\* the lists of at most max elements of S
ListsUpTo(S, max) == UNION {[1..n -> S] : n \in 0..max}

NodeName(i) == "node0" \o Itoa(i)
ResourceId(i) == "rsc_" \o Itoa(i)
ConstraintId(i) == "cli-prefer-" \o Itoa(i)

NodeTypes == {"member", "ping", "remote", "cluster", ""}
ResourceStatusNames == {"active", "orphaned", "blocked", "failed", "failure_ignored"}
Roles == {"Started", "Stopped", "Master", "SLAVE", "started", ""}

Node(name, type, flags, resources) ==
    [Name |-> name, Type |-> type,
     Online |-> "online" \in flags, Standby |-> "standby" \in flags,
     StandbyOnFail |-> "standby_onfail" \in flags,
     Maintenance |-> "maintenance" \in flags, Pending |-> "pending" \in flags,
     Unclean |-> "unclean" \in flags, Shutdown |-> "shutdown" \in flags,
     ExpectedUp |-> "expected_up" \in flags, DC |-> "dc" \in flags,
     Resources |-> resources]

Resource(id, role, managed, flags) ==
    [Id |-> id, Role |-> role, Managed |-> managed,
     Active |-> "active" \in flags, Orphaned |-> "orphaned" \in flags,
     Blocked |-> "blocked" \in flags, Failed |-> "failed" \in flags,
     FailureIgnored |-> "failure_ignored" \in flags]

CrmMon(stonith, nodes, resources, history, lastChange) ==
    [StonithEnabled |-> stonith, Nodes |-> nodes, Resources |-> resources,
     NodeHistory |-> history, LastChange |-> lastChange]

GoodLastChange == [err |-> FALSE, unix |-> 1589810000]
BadLastChange == [err |-> TRUE, unix |-> 0]

PacemakerInput(crmMonErr, cibErr, crmMon, rscLocations) ==
    [crmMonErr |-> crmMonErr, cibErr |-> cibErr, crmMon |-> crmMon,
     CIB |-> [RscLocations |-> rscLocations]]

\* one node of any type with any of its nine flags set
OneNodeInputs ==
    {PacemakerInput(FALSE, FALSE,
        CrmMon(TRUE, <<Node(NodeName(1), t, f, <<>>)>>, <<>>, <<>>, GoodLastChange), <<>>) :
        t \in NodeTypes, f \in SUBSET NodeStatusNames}

NodeChoices ==
    {[type |-> "member", flags |-> {"online"}, resources |-> <<>>],
     [type |-> "ping", flags |-> {}, resources |-> <<>>],
     [type |-> "cluster", flags |-> NodeStatusNames, resources |-> <<>>],
     [type |-> "member", flags |-> {"online", "dc"},
      resources |-> <<Resource(ResourceId(1), "Started", TRUE, {"active"})>>]}

\* several nodes
NodeListInputs ==
    {PacemakerInput(FALSE, FALSE,
        CrmMon(TRUE,
               [i \in 1..Len(l) |-> Node(NodeName(i), l[i].type, l[i].flags, l[i].resources)],
               <<>>, <<>>, GoodLastChange), <<>>) :
        l \in ListsUpTo(NodeChoices, MaxNodes)}

\* one resource, ungrouped or owned by a node, with any of its five flags set
OneResourceInputs ==
    {PacemakerInput(FALSE, FALSE,
        IF owned
        THEN CrmMon(TRUE, <<Node(NodeName(1), "member", {}, <<Resource(ResourceId(1), r, m, f)>>)>>,
                    <<>>, <<>>, GoodLastChange)
        ELSE CrmMon(TRUE, <<>>, <<Resource(ResourceId(1), r, m, f)>>, <<>>, GoodLastChange),
        <<>>) :
        owned \in BOOLEAN, r \in Roles, m \in BOOLEAN, f \in SUBSET ResourceStatusNames}

ResourceChoices ==
    {[role |-> "Started", managed |-> TRUE, flags |-> {"active"}],
     [role |-> "Stopped", managed |-> FALSE, flags |-> {}],
     [role |-> "Master", managed |-> TRUE, flags |-> {"active", "failed", "blocked"}]}

\* several resources, ungrouped and owned by a node
ResourceListInputs ==
    {PacemakerInput(FALSE, FALSE,
        CrmMon(FALSE,
               <<Node(NodeName(1), "member", {"online"},
                      [i \in 1..Len(l) |-> Resource(ResourceId(i), l[i].role, l[i].managed, l[i].flags)])>>,
               [i \in 1..Len(u) |-> Resource(ResourceId(i), u[i].role, u[i].managed, u[i].flags)],
               <<>>, GoodLastChange), <<>>) :
        l \in ListsUpTo(ResourceChoices, MaxResources),
        u \in ListsUpTo(ResourceChoices, MaxResources)}

FailCounts == {0, 3, FailCountInfinity - 1, FailCountInfinity, FailCountInfinity + 1}
MigrationThresholds == {0, 5000}

HistoryEntries == [fc : FailCounts, mt : MigrationThresholds]

ResourceHistory(l) ==
    [i \in 1..Len(l) |->
        [Name |-> ResourceId(i), FailCount |-> l[i].fc, MigrationThreshold |-> l[i].mt]]

\* the history of one node
OneHistoryInputs ==
    {PacemakerInput(FALSE, FALSE,
        CrmMon(TRUE, <<>>, <<>>,
               <<[Name |-> NodeName(1), ResourceHistory |-> ResourceHistory(l)]>>,
               GoodLastChange), <<>>) :
        l \in ListsUpTo(HistoryEntries, MaxHistory)}

HistoryChoices ==
    {<<>>, <<[fc |-> 3, mt |-> 5000]>>,
     <<[fc |-> FailCountInfinity, mt |-> 0], [fc |-> 0, mt |-> 5000]>>}

\* the history of several nodes
HistoryListInputs ==
    {PacemakerInput(FALSE, FALSE,
        CrmMon(TRUE, <<>>, <<>>,
               [i \in 1..Len(l) |-> [Name |-> NodeName(i), ResourceHistory |-> ResourceHistory(l[i])]],
               GoodLastChange), <<>>) :
        l \in ListsUpTo(HistoryChoices, MaxHistory)}

ScoreAlphabet == {"0", "1", "5", "-", "+", "x"}

RECURSIVE StringsOfLen(_)
StringsOfLen(n) ==
    IF n = 0 THEN {""}
    ELSE {c \o t : c \in ScoreAlphabet, t \in StringsOfLen(n - 1)}

Scores ==
    UNION {StringsOfLen(n) : n \in 0..MaxScoreLen}
    \cup {"INFINITY", "-INFINITY", "+INFINITY", "infinity", "-Infinity",
          "150", "-150", "1000000", "INFINITY0", "15 "}

Constraint(i, role, score) ==
    [Id |-> ConstraintId(i), Node |-> NodeName(i), Resource |-> ResourceId(i),
     Role |-> role, Score |-> score]

\* one location constraint with any score
OneConstraintInputs ==
    {PacemakerInput(FALSE, FALSE, CrmMon(TRUE, <<>>, <<>>, <<>>, GoodLastChange),
                    <<Constraint(1, r, sc)>>) :
        r \in {"Started", "Master"}, sc \in Scores}

ConstraintChoices ==
    {[role |-> "Started", score |-> "INFINITY"],
     [role |-> "MASTER", score |-> "-INFINITY"],
     [role |-> "", score |-> "150"],
     [role |-> "Slave", score |-> "bogus"]}

\* several location constraints
ConstraintListInputs ==
    {PacemakerInput(FALSE, FALSE, CrmMon(TRUE, <<>>, <<>>, <<>>, GoodLastChange),
                    [i \in 1..Len(l) |-> Constraint(i, l[i].role, l[i].score)]) :
        l \in ListsUpTo(ConstraintChoices, MaxConstraints)}

FullCrmMon(stonith, lastChange) ==
    CrmMon(stonith,
           <<Node(NodeName(1), "member", {"online", "dc", "expected_up"},
                  <<Resource(ResourceId(1), "Started", TRUE, {"active"})>>),
             Node(NodeName(2), "remote", {"standby"}, <<>>)>>,
           <<Resource(ResourceId(2), "Stopped", FALSE, {})>>,
           <<[Name |-> NodeName(1),
              ResourceHistory |-> ResourceHistory(<<[fc |-> FailCountInfinity, mt |-> 5000]>>)]>>,
           lastChange)

\* a whole cluster, with any outcome of the two parsers and of time.Parse
OutcomeInputs ==
    {PacemakerInput(e1, e2, FullCrmMon(st, lc), <<Constraint(1, "Started", "INFINITY")>>) :
        e1 \in BOOLEAN, e2 \in BOOLEAN, st \in BOOLEAN,
        lc \in {GoodLastChange, BadLastChange}}

PacemakerInputs ==
    OneNodeInputs \cup NodeListInputs \cup OneResourceInputs \cup ResourceListInputs
    \cup OneHistoryInputs \cup HistoryListInputs \cup OneConstraintInputs
    \cup ConstraintListInputs \cup OutcomeInputs

(***************************************************************************)
(* What the file system and drbdsetup can give a pass: the DRBD side.      *)
(***************************************************************************)
DrbdName(i) == "res" \o Itoa(i)
DrbdRoles == {"Primary", "Secondary", "Unknown"}
DiskStates == {"UpToDate", "Inconsistent", "DUnknown"}

Device(volume, quorum, diskState) ==
    [Volume |-> volume, Written |-> 100 + volume, Read |-> 200 + volume,
     AlWrites |-> 10 + volume, BmWrites |-> 20 + volume,
     UpPending |-> volume, LoPending |-> 2 * volume,
     Quorum |-> quorum, DiskState |-> diskState]

PeerDevice(volume, peerDiskState) ==
    [Volume |-> volume, Received |-> 300 + volume, Sent |-> 400 + volume,
     Pending |-> volume, Unacked |-> 1 + volume,
     PeerDiskState |-> peerDiskState, PercentInSync |-> 100 - volume]

Connection(peerNodeID, peerRole, nPeerDevices) ==
    [PeerNodeID |-> peerNodeID, PeerRole |-> peerRole,
     PeerDevices |-> [v \in 1..nPeerDevices |-> PeerDevice(v - 1, "UpToDate")]]

DrbdResource(name, role, nDevices, peerDeviceCounts) ==
    [Name |-> name, Role |-> role,
     Devices |-> [v \in 1..nDevices |-> Device(v - 1, v = 1, "UpToDate")],
     Connections |-> [c \in 1..Len(peerDeviceCounts) |->
                         Connection(10 * c, "Secondary", peerDeviceCounts[c])]]

\* the file names a split-brain directory is filled from, in the byte order
\* ioutil.ReadDir sorts by
FileNames ==
    <<"README",
      "drbd-split-brain-detected-",
      "drbd-split-brain-detected--",
      "drbd-split-brain-detected-myres",
      "drbd-split-brain-detected-myres-0",
      "drbd-split-brain-detected-myres-0-1",
      "drbd-split-brain-detected-other-1",
      "old-drbd-split-brain-detected-myres-0",
      "zzz">>

Dir(S) ==
    [exists |-> TRUE,
     names |-> SelectSeq(FileNames, LAMBDA n : n \in S)]

MissingDir == [exists |-> FALSE, names |-> <<>>]

Dirs ==
    {MissingDir} \cup
    {Dir({FileNames[i] : i \in I}) :
        I \in {J \in SUBSET (1..Len(FileNames)) : Cardinality(J) <= MaxFiles}}

DrbdInput(dir, execErr, jsonErr, drbdDev) ==
    [dir |-> dir, execErr |-> execErr, jsonErr |-> jsonErr, drbdDev |-> drbdDev]

PlainResource == DrbdResource(DrbdName(1), "Primary", 1, <<1>>)

\* any directory, with any outcome of drbdsetup and of the JSON parser
DirInputs ==
    {DrbdInput(d, e1, e2, dev) :
        d \in Dirs, e1 \in BOOLEAN, e2 \in BOOLEAN, dev \in {<<>>, <<PlainResource>>}}

FewDirs == {MissingDir, Dir({"drbd-split-brain-detected-myres-0"})}

\* one resource with any number of devices, connections and peer devices
OneDrbdResourceInputs ==
    {DrbdInput(d, FALSE, FALSE, <<DrbdResource(DrbdName(1), "Primary", n, pc)>>) :
        d \in FewDirs, n \in 0..MaxDevices,
        pc \in ListsUpTo(0..MaxPeerDevices, MaxConnections)}

DrbdResourceChoices ==
    {[n |-> 1, pc |-> <<>>], [n |-> 1, pc |-> <<0>>], [n |-> 2, pc |-> <<1>>],
     [n |-> 1, pc |-> <<0, 2>>], [n |-> 0, pc |-> <<1, 0>>]}

\* several resources
DrbdResourceListInputs ==
    {DrbdInput(d, FALSE, FALSE,
               [i \in 1..Len(l) |-> DrbdResource(DrbdName(i), "Secondary", l[i].n, l[i].pc)]) :
        d \in FewDirs, l \in ListsUpTo(DrbdResourceChoices, MaxDrbdResources)}

\* one resource, device, connection and peer device in any role and state
DrbdCaseInputs ==
    {DrbdInput(MissingDir, FALSE, FALSE,
        <<[Name |-> DrbdName(1), Role |-> r,
           Devices |-> <<Device(0, TRUE, ds)>>,
           Connections |-> <<[PeerNodeID |-> 10, PeerRole |-> pr,
                              PeerDevices |-> <<PeerDevice(0, pds)>>]>>]>>) :
        r \in DrbdRoles, ds \in DiskStates, pr \in DrbdRoles, pds \in DiskStates}

DrbdInputs ==
    DirInputs \cup OneDrbdResourceInputs \cup DrbdResourceListInputs \cup DrbdCaseInputs

(***************************************************************************)
(* The state machine: the registry calls Collect of either collector with  *)
(* a channel, and reads what the pass sent.                                *)
(***************************************************************************)
NoInput == [none |-> TRUE]

Init ==
    /\ collector = "none"
    /\ input = NoInput
    /\ ch = EmptyBag
    /\ panicked = FALSE

PacemakerCollect ==
    /\ collector = "none"
    /\ \E in \in PacemakerInputs :
        /\ input' = in
        /\ ch' = pacemakerCollect(in)
    /\ collector' = "pacemaker"
    /\ UNCHANGED panicked

DrbdCollect ==
    /\ collector = "none"
    /\ \E in \in DrbdInputs :
        /\ input' = in
        /\ ch' = drbdCollect(in).ch
        /\ panicked' = drbdCollect(in).panicked
    /\ collector' = "drbd"

\* the pass has returned and the registry has read the channel; a panic in a
\* pass ends the process instead
Gather ==
    /\ collector # "none"
    /\ ~panicked
    /\ collector' = "none"
    /\ input' = NoInput
    /\ ch' = EmptyBag
    /\ UNCHANGED panicked

Next == PacemakerCollect \/ DrbdCollect \/ Gather

Spec == Init /\ [][Next]_vars

(***************************************************************************)
(* Properties.                                                             *)
(***************************************************************************)
Samples == BagToSet(ch)

\* how many samples of the set S the pass sent
CountOf(S) == IF S = {} THEN 0 ELSE BagCardinality([m \in S |-> ch[m]])

PacemakerPassed ==
    collector = "pacemaker" /\ ~input.crmMonErr /\ ~input.cibErr

DrbdPassed ==
    collector = "drbd" /\ ~input.execErr /\ ~input.jsonErr /\ ~panicked

Gauge(name, value, labels) ==
    [name |-> name, type |-> "gauge", value |-> value, labels |-> labels]

IsLowerCase(s) ==
    \A i \in 1..Len(s) : \A j \in 1..Len(UpperLetters) : CharAt(s, i) # CharAt(UpperLetters, j)

NodeFlag(node, f) ==
    CASE f = "online" -> node.Online
      [] f = "standby" -> node.Standby
      [] f = "standby_onfail" -> node.StandbyOnFail
      [] f = "maintenance" -> node.Maintenance
      [] f = "pending" -> node.Pending
      [] f = "unclean" -> node.Unclean
      [] f = "shutdown" -> node.Shutdown
      [] f = "expected_up" -> node.ExpectedUp
      [] f = "dc" -> node.DC

TrueNodeFlags(node) == {f \in NodeStatusNames : NodeFlag(node, f)}

NodeSamples(node) == {m \in Samples : m.name = "nodes" /\ m.labels[1] = node.Name}

\* C3: each node with k of its nine flags true has exactly k `nodes` samples,
\* one per true flag, each of value 1 with the labels (node name, type or
\* "unknown", flag name); a node with no true flag has none.
NodeStatusProjection ==
    PacemakerPassed =>
        \A i \in 1..Len(input.crmMon.Nodes) :
            LET node == input.crmMon.Nodes[i]
                type == IF node.Type \in {"member", "ping", "remote"}
                        THEN node.Type ELSE "unknown"
            IN  /\ NodeSamples(node) =
                     {Gauge("nodes", Float64(1), <<node.Name, type, f>>) :
                         f \in TrueNodeFlags(node)}
                /\ \A m \in NodeSamples(node) : ch[m] = 1
                /\ CountOf(NodeSamples(node)) = Cardinality(TrueNodeFlags(node))

\* a node of an unknown type with all nine flags true, and its nine samples
NodeStatusWitness ==
    /\ PacemakerPassed
    /\ \E i \in 1..Len(input.crmMon.Nodes) :
        LET node == input.crmMon.Nodes[i]
        IN  /\ node.Type = "cluster"
            /\ TrueNodeFlags(node) = NodeStatusNames
            /\ CountOf({m \in NodeSamples(node) : m.labels[2] = "unknown"}) = 9

ResourceFlag(resource, f) ==
    CASE f = "active" -> resource.Active
      [] f = "orphaned" -> resource.Orphaned
      [] f = "blocked" -> resource.Blocked
      [] f = "failed" -> resource.Failed
      [] f = "failure_ignored" -> resource.FailureIgnored

TrueResourceFlags(resource) == {f \in ResourceStatusNames : ResourceFlag(resource, f)}

ResourceSamples(nodeName, resource) ==
    {m \in Samples : /\ m.name = "resources"
                     /\ m.labels[1] = nodeName
                     /\ m.labels[2] = resource.Id}

\* what C4 says of one resource under the node label nodeName
ResourceProjected(nodeName, resource) ==
    LET mine == ResourceSamples(nodeName, resource)
        k == Cardinality(TrueResourceFlags(resource))
    IN  /\ \A m \in mine : ch[m] = 1 /\ m.value = Float64(1) /\ Len(m.labels) = 5
        /\ IF k = 0
           THEN CountOf(mine) = 1 /\ \A m \in mine : m.labels[5] = ""
           ELSE /\ CountOf(mine) = k
                /\ {m.labels[5] : m \in mine} = TrueResourceFlags(resource)

\* C4: each resource has exactly one `resources` sample with the empty status
\* when none of its five flags is true, and otherwise exactly one per true
\* flag and none with the empty status; the node label is the owning node's
\* name, and empty for an ungrouped resource.
ResourceStatusProjection ==
    PacemakerPassed =>
        /\ \A i \in 1..Len(input.crmMon.Resources) :
               ResourceProjected("", input.crmMon.Resources[i])
        /\ \A i \in 1..Len(input.crmMon.Nodes) :
               \A j \in 1..Len(input.crmMon.Nodes[i].Resources) :
                   ResourceProjected(input.crmMon.Nodes[i].Name,
                                     input.crmMon.Nodes[i].Resources[j])
        /\ \A m \in Samples :
               m.name = "resources" =>
                   \/ \E i \in 1..Len(input.crmMon.Resources) :
                          m \in ResourceSamples("", input.crmMon.Resources[i])
                   \/ \E i \in 1..Len(input.crmMon.Nodes) :
                          \E j \in 1..Len(input.crmMon.Nodes[i].Resources) :
                              m \in ResourceSamples(input.crmMon.Nodes[i].Name,
                                                    input.crmMon.Nodes[i].Resources[j])

\* an ungrouped resource with no flag true, and its one sample of empty status
ResourceStatusWitness ==
    /\ PacemakerPassed
    /\ \E i \in 1..Len(input.crmMon.Resources) :
        LET resource == input.crmMon.Resources[i]
        IN  /\ TrueResourceFlags(resource) = {}
            /\ CountOf({m \in ResourceSamples("", resource) : m.labels[5] = ""}) = 1

HistorySamples(node, resHistory) ==
    {m \in Samples : m.name = "fail_count" /\ m.labels = <<node.Name, resHistory.Name>>}

\* C5: each (node, resource) entry of the node history has exactly one
\* `fail_count` sample, of value +Inf when the raw fail count is 1000000 and
\* of the raw value for every other raw value.
FailCountOnlySentinel ==
    PacemakerPassed =>
        \A i \in 1..Len(input.crmMon.NodeHistory) :
            \A j \in 1..Len(input.crmMon.NodeHistory[i].ResourceHistory) :
                LET node == input.crmMon.NodeHistory[i]
                    resHistory == node.ResourceHistory[j]
                IN  /\ CountOf(HistorySamples(node, resHistory)) = 1
                    /\ \A m \in HistorySamples(node, resHistory) :
                           m.value = IF resHistory.FailCount = 1000000
                                     THEN PosInf ELSE Float64(resHistory.FailCount)

RECURSIVE Pow10(_)
Pow10(n) == IF n = 0 THEN 1 ELSE 10 * Pow10(n - 1)

RECURSIVE SumUpTo(_, _)
SumUpTo(f, n) == IF n = 0 THEN 0 ELSE f[n] + SumUpTo(f, n - 1)

\* the number a string of decimal digits writes
DecimalValue(d) ==
    SumUpTo([i \in 1..Len(d) |-> DigitValue(CharAt(d, i)) * Pow10(Len(d) - i)], Len(d))

Unsigned(s) ==
    IF s # "" /\ CharAt(s, 1) \in {"+", "-"} THEN SubSeq(s, 2, Len(s)) ELSE s

\* an optional sign followed by one or more decimal digits
IsSignedInteger(s) ==
    Unsigned(s) # "" /\ \A i \in 1..Len(Unsigned(s)) : IsDigit(CharAt(Unsigned(s), i))

SignedValue(s) ==
    IF CharAt(s, 1) = "-" THEN 0 - DecimalValue(Unsigned(s)) ELSE DecimalValue(Unsigned(s))

ExpectedScore(s) ==
    IF s = "INFINITY" THEN PosInf
    ELSE IF s = "-INFINITY" THEN NegInf
    ELSE IF IsSignedInteger(s) THEN Float64(SignedValue(s))
    ELSE Float64(0)

ConstraintSamples(constraint) ==
    {m \in Samples : m.name = "location_constraints" /\ m.labels[1] = constraint.Id}

FailedSourceEmitsNothing ==
    /\ (collector = "pacemaker" /\ (input.crmMonErr \/ input.cibErr)) => ch = EmptyBag
    /\ (collector = "drbd" /\ (input.execErr \/ input.jsonErr)) => ch = EmptyBag

\* C2: no Collect pass ends in a panic, whatever its input.
CollectNeverPanics == ~panicked

\* the (resource, volume) a file name marks, <<>> when it does not start with
\* the prefix
Marker(f) ==
    IF HasPrefix(f, SplitBrainPrefix)
    THEN Split(SubSeq(f, Len(SplitBrainPrefix) + 1, Len(f)), "-")
    ELSE <<>>

\* C7: the `split_brain` samples of a pass are exactly one sample of value 1
\* with labels (resource, volume) per listed file whose name is the prefix
\* followed by two '-'-separated parts, and none for any other file.
SplitBrainProjection ==
    collector = "drbd" =>
        LET files == IF input.dir.exists THEN input.dir.names ELSE <<>>
            good == {i \in 1..Len(files) : Len(Marker(files[i])) = 2}
            Expected(i) == Gauge("split_brain", Float64(1), Marker(files[i]))
        IN  /\ \A i \in good : Expected(i) \in Samples
            /\ \A m \in Samples :
                   m.name = "split_brain" =>
                       ch[m] = Cardinality({i \in good : Expected(i) = m})

DeviceMetricNames ==
    {"resources", "written", "read", "al_writes", "bm_writes",
     "upper_pending", "lower_pending", "quorum"}

ConnectionMetricNames ==
    {"connections", "connections_sync", "connections_received",
     "connections_sent", "connections_pending", "connections_unacked"}

DeviceSamplesOf(resource) ==
    {m \in Samples : m.name \in DeviceMetricNames /\ m.labels[1] = resource.Name}

ConnectionSamplesOf(resource) ==
    {m \in Samples : m.name \in ConnectionMetricNames /\ m.labels[1] = resource.Name}

\* C8: in a pass whose tool succeeded, a resource without connections and a
\* connection without peer devices have no connection sample, and every
\* resource still has its eight samples per device and every connection its
\* six samples per peer device, as if the skipped ones were absent.
ConnectionSkipping ==
    DrbdPassed =>
        \A i \in 1..Len(input.drbdDev) :
            LET resource == input.drbdDev[i]
            IN  /\ CountOf(DeviceSamplesOf(resource)) = 8 * Len(resource.Devices)
                /\ \A n \in DeviceMetricNames : \A v \in 1..Len(resource.Devices) :
                       CountOf({m \in DeviceSamplesOf(resource) :
                                   /\ m.name = n
                                   /\ m.labels[IF n = "resources" THEN 3 ELSE 2]
                                          = Itoa(resource.Devices[v].Volume)}) = 1
                /\ Len(resource.Connections) = 0 => ConnectionSamplesOf(resource) = {}
                /\ \A c \in 1..Len(resource.Connections) :
                       LET conn == resource.Connections[c]
                           mine == {m \in ConnectionSamplesOf(resource) :
                                       m.labels[2] = Itoa(conn.PeerNodeID)}
                       IN  /\ CountOf(mine) = 6 * Len(conn.PeerDevices)
                           /\ \A n \in ConnectionMetricNames :
                                  CountOf({m \in mine : m.name = n}) = Len(conn.PeerDevices)

\* a resource without connections comes first, and a later resource has its
\* connection samples
ConnectionSkippingWitness ==
    /\ DrbdPassed
    /\ Len(input.drbdDev) >= 2
    /\ Len(input.drbdDev[1].Connections) = 0
    /\ Len(input.drbdDev[1].Devices) > 0
    /\ CountOf(DeviceSamplesOf(input.drbdDev[1])) = 8 * Len(input.drbdDev[1].Devices)
    /\ \E c \in 1..Len(input.drbdDev[2].Connections) :
           Len(input.drbdDev[2].Connections[c].PeerDevices) = 0
    /\ CountOf(ConnectionSamplesOf(input.drbdDev[2])) > 0

Descriptors ==
    IF collector = "pacemaker" THEN PacemakerDescriptors ELSE DrbdDescriptors

IsNumber(v) == v # "" /\ \A i \in 1..Len(v) : IsDigit(CharAt(v, i))

\* the values a label of the given name takes for the snapshots of the model
LabelFits(metric, label, v) ==
    IF collector = "pacemaker"
    THEN CASE label = "node" -> v = "" \/ HasPrefix(v, "node0")
           [] label = "type" -> v \in {"member", "ping", "remote", "unknown"}
           [] label = "status" ->
                  IF metric = "nodes" THEN v \in NodeStatusNames
                  ELSE v \in ResourceStatusNames \cup {""}
           [] label = "resource" -> HasPrefix(v, "rsc_")
           [] label = "role" -> v \in {"started", "stopped", "master", "slave", ""}
           [] label = "managed" -> v \in {"true", "false"}
           [] label = "constraint" -> HasPrefix(v, "cli-prefer-")
    ELSE IF metric = "split_brain"
    THEN CASE label = "resource" -> v \in {"myres", "other", ""}
           [] label = "volume" -> v \in {"0", "1", ""}
    ELSE CASE label = "resource" -> HasPrefix(v, "res")
           [] label = "role" -> v \in DrbdRoles
           [] label = "peer_role" -> v \in DrbdRoles
           [] label = "volume" -> IsNumber(v) /\ Len(v) = 1
           [] label = "peer_node_id" -> IsNumber(v) /\ Len(v) = 2
           [] label = "disk_state" -> v \in {"uptodate", "inconsistent", "dunknown"}
           [] label = "peer_disk_state" -> v \in {"uptodate", "inconsistent", "dunknown"}

\* C9: every sample a pass sends has a name NewCollector registered, as many
\* label values as the registered label names, and at each position a value
\* of the label registered at that position.
LabelArity ==
    collector # "none" =>
        \A m \in Samples :
            /\ m.name \in DOMAIN Descriptors
            /\ Len(m.labels) = Len(Descriptors[m.name])
            /\ \A i \in 1..Len(m.labels) :
                   LabelFits(m.name, Descriptors[m.name][i], m.labels[i])

\* a Pacemaker pass that sent a `resources` sample of five labels and the two
\* samples without labels
LabelArityWitness ==
    /\ collector = "pacemaker"
    /\ \E m \in Samples : m.name = "resources" /\ Len(m.labels) = 5 /\ m.labels[4] = "true"
    /\ \E m \in Samples : m.name = "stonith_enabled" /\ m.labels = <<>>
    /\ \E m \in Samples : m.name = "config_last_change" /\ m.labels = <<>>

\* C10: every role and state label is the lower-cased snapshot value: the
\* role of the Pacemaker `resources` and `location_constraints`, the role and
\* disk_state of the DRBD `resources`, the peer_role and peer_disk_state of
\* the DRBD `connections`.
CaseNormalization ==
    /\ PacemakerPassed =>
        /\ \A m \in Samples : m.name = "resources" => IsLowerCase(m.labels[3])
        /\ \A i \in 1..Len(input.CIB.RscLocations) :
               \A m \in ConstraintSamples(input.CIB.RscLocations[i]) :
                   m.labels[4] = ToLower(input.CIB.RscLocations[i].Role)
    /\ DrbdPassed =>
        \A i \in 1..Len(input.drbdDev) :
            LET resource == input.drbdDev[i]
            IN  /\ \A m \in DeviceSamplesOf(resource) :
                       m.name = "resources" =>
                           /\ m.labels[2] = ToLower(resource.Role)
                           /\ \E v \in 1..Len(resource.Devices) :
                                  m.labels[4] = ToLower(resource.Devices[v].DiskState)
                /\ \A m \in ConnectionSamplesOf(resource) :
                       m.name = "connections" =>
                           /\ \E c \in 1..Len(resource.Connections) :
                                  m.labels[3] = ToLower(resource.Connections[c].PeerRole)
                           /\ IsLowerCase(m.labels[5])

====
